---- MODULE Spec2Model ----
(***************************************************************************)
(* GIF editor: the decode worker (gif-reader.worker + utils.loadFrames),   *)
(* the legacy loader (gif.ts), the editor's export (file-editor download)  *)
(* and the encode worker (gif-writer + gif-writer.worker + utils.beginFile)*)
(* as state machines over small images.                                    *)
(*                                                                         *)
(* An image is one scan line of Width pixels (height 1, so every frame has *)
(* y = 0 and height = 1 and a rectangle is the pair x, width).  A pixel is *)
(* the RGBA tuple <<r, g, b, a>> of ImageData.                             *)
(***************************************************************************)
EXTENDS Integers, Sequences, FiniteSets, TLC

\* ------------------------------------------------------------------ bounds
Width == 2
MaxFrames == 3
MaxDelay == 2
CanvasWidth == 4

\* ------------------------------------------------------- pixels and canvas
Xs == 0 .. (Width - 1)

\* rgba(0,0,0,0): a new canvas, a new ImageData and a cleared rectangle
TransparentPixel == <<0, 0, 0, 0>>

BlankImage == [p \in Xs |-> TransparentPixel]

InRect(p, x, w) == p >= x /\ p < x + w

\* a plausible slip of the RestoreBackground disposal: the whole canvas cleared
clearWholeCanvas(cv, x, w) == [p \in Xs |-> TransparentPixel]

\* CanvasRenderingContext2D.clearRect(x, 0, w, 1)
clearRect(cv, x, w) == [p \in Xs |-> IF InRect(p, x, w) THEN TransparentPixel ELSE cv[p]]

\* CanvasRenderingContext2D.drawImage(image, 0, 0) under the default
\* globalCompositeOperation "source-over": a source pixel of alpha 0 leaves
\* the destination pixel as it is (every alpha here is 0 or 255).
drawImage(cv, image) == [p \in Xs |-> IF image[p][4] = 0 THEN cv[p] ELSE image[p]]

\* CanvasRenderingContext2D.putImageData(image, 0, 0, dirtyX, 0, dirtyWidth, 1):
\* the dirty rectangle is copied, alpha included, no compositing
putImageData(cv, image, dirtyX, dirtyWidth) ==
  [p \in Xs |-> IF InRect(p, dirtyX, dirtyWidth) THEN image[p] ELSE cv[p]]

\* ---------------------------------------------------------------- palettes
\* convertPalette: r, g, b bytes to (r << 16) + (g << 8) + b
convertPalette(palette) ==
  [k \in 1 .. (Len(palette) \div 3) |->
     palette[3 * k - 2] * 65536 + palette[3 * k - 1] * 256 + palette[3 * k]]

\* palette tables of the input files, as r, g, b bytes
GlobalBytes == <<0, 0, 0, 255, 0, 0>>
LocalBytes == <<0, 0, 255, 0, 255, 0>>

\* ---------------------------------------------------------- the input file
\* GifReader's value of transparent_index === null (omggif uses 256 for it)
NoTransparentIndex == 256

\* frameInfo(i) with the frame's index stream and the colour table it uses
FrameInfos(rects, disposals, delays, locals, indices, transparents) ==
  { [x |-> r[1], width |-> r[2], disposal |-> d, delay |-> t,
     has_local_palette |-> l,
     palette |-> IF l THEN LocalBytes ELSE GlobalBytes,
     transparent_index |-> tr,
     stream |-> [k \in 1 .. r[2] |-> ix]] :
    r \in rects, d \in disposals, t \in delays, l \in locals,
    ix \in indices, tr \in transparents }

\* the frame rectangles of the inputs: the full line, its first pixel, its last
Rects == { <<0, Width>>, <<0, 1>>, <<Width - 1, 1>> }

Disposals == 0 .. 3

FilesOf(frameInfos) == UNION { [1 .. n -> frameInfos] : n \in 0 .. MaxFrames }

\* GifReader.decodeAndBlitFrameRGBA(i, pixels, palette): writes the frame's
\* pixels into its rectangle of `pixels`; a pixel whose index is the
\* transparent index is skipped, so `pixels` keeps what it held there
decodeAndBlitFrameRGBA(pixels, f) ==
  [p \in Xs |->
     IF InRect(p, f.x, f.width) /\ f.stream[p - f.x + 1] # f.transparent_index
     THEN <<f.palette[3 * f.stream[p - f.x + 1] + 1],
            f.palette[3 * f.stream[p - f.x + 1] + 2],
            f.palette[3 * f.stream[p - f.x + 1] + 3], 255>>
     ELSE pixels[p]]

VARIABLES
  gif,               \* the frames of the file the reader worker was given
  rpc,               \* where the reader worker's handler / loadFrames stands
  i,                 \* loadFrames: loop index
  canvas,            \* loadFrames: the OffscreenCanvas
  scratchData,       \* loadFrames: the ImageData decodeAndBlitFrameRGBA fills
  prevFrameInfo,     \* loadFrames: <<>> for null, else <<frameInfo>>
  prevRestorePoint,  \* loadFrames: <<>> for null, else <<k>>, frameDatas[k]
  frameDatas,        \* the GifFrameData objects loadFrames has created
  posted,            \* the messages the reader worker has posted, in order
  lpc,               \* gif.ts loadFrames: where it stands
  result,            \* gif.ts loadFrames: the frames it has built
  delivered,         \* how many of `posted` the main thread has received
  framesRemaining,   \* readGifFromFile: <<>> for null, else <<n>>
  resolved,          \* readGifFromFile: the files whose call's promise is resolved
  readWorker,        \* the file whose reader worker the decode variables follow
  staleCount,        \* how many of `posted` are of workers of earlier files
  image,             \* FileEditor: <<>> for undefined, else <<metadata>>
  frames,            \* FileEditor: the frames received
  frameStates,       \* FileEditor: one [deleted] per frame
  selectedFrame,     \* FileEditor: the selected frame index
  sourceFile,        \* FileEditor: its sourceFile prop, files numbered 0, 1
  storage,           \* localStorage: per file key, <<>> or <<the item stored>>
  uiError,           \* what a handler or state updater of FileEditor threw, or "none"
  isPlaying,         \* FileEditor: whether PlayControl drives the selected frame
  exportError,       \* what the last call of download threw, or "none"
  wpc,               \* writeGifToFile: "idle", "sending" (in its loop), "sent"
  framesToSave,      \* writeGifToFile: its `frames` argument
  sendIdx,           \* writeGifToFile: how many frames its loop has posted
  toWriter,          \* the messages posted to the writer worker, in order
  handled,           \* how many of `toWriter` the writer worker has handled
  writer,            \* gif-writer.worker: <<>> for null, else <<beginFile's state>>
  bufferPosted,      \* the output-buffer messages the writer worker has posted
  saved,             \* the buffers saveFile was called with
  transferred        \* the main thread's objects detached by a transfer to the writer

decodeVars == <<gif, rpc, i, canvas, scratchData, prevFrameInfo,
                prevRestorePoint, frameDatas, posted>>

legacyVars == <<lpc, result>>

readerVars == <<delivered, framesRemaining, resolved, readWorker, staleCount>>

editorVars == <<image, frames, frameStates, selectedFrame, sourceFile, storage,
                uiError, isPlaying>>

exportVars == <<exportError, wpc, framesToSave, sendIdx, toWriter, handled,
                writer, bufferPosted, saved, transferred>>

vars == <<decodeVars, legacyVars, readerVars, editorVars, exportVars>>

\* what the decode worker's steps leave alone
decodeOthers == <<legacyVars, readerVars, editorVars, exportVars>>

\* ------------------------------------------------------- the decode worker
numFrames == Len(gif)

frameInfo == gif[i + 1]

\* src part_003: new GifReadWorker(); worker.postMessage({size, stream})
ReadGifFromFile ==
  /\ rpc = "none"
  /\ rpc' = "start"
  /\ UNCHANGED <<gif, i, canvas, scratchData, prevFrameInfo, prevRestorePoint,
                 frameDatas, posted>>
  /\ UNCHANGED decodeOthers

\* gif-reader.worker onmessage (lines 18-30) up to the first step of
\* loadFrames, in the worker given the file g: readFile, the metadata message,
\* loadFrames' locals
ReadWorkerBegin(g) ==
  /\ posted' = Append(posted, [type |-> "metadata",
                               value |-> [width |-> Width, frameCount |-> Len(g)]])
  /\ canvas' = BlankImage
  /\ scratchData' = BlankImage
  /\ prevFrameInfo' = <<>>
  /\ prevRestorePoint' = <<>>
  /\ i' = 0
  /\ rpc' = "loop"

\* the handler of the worker of the file FileEditor was mounted with
ReadWorkerOnMessage ==
  /\ rpc = "start"
  /\ ReadWorkerBegin(gif)
  /\ UNCHANGED <<gif, frameDatas>>
  /\ UNCHANGED decodeOthers

\* gif-reader.worker line 20 for bytes that are no GIF: new GifReader(data)
\* throws inside readFile, the async handler's promise is rejected, nothing is
\* posted (the frames of `gif` are not looked at)
ReadFileThrows ==
  /\ rpc = "start"
  /\ rpc' = "threw"
  /\ UNCHANGED <<gif, i, canvas, scratchData, prevFrameInfo, prevRestorePoint,
                 frameDatas, posted>>
  /\ UNCHANGED decodeOthers

\* the image drawImage is asked to draw is usable: not a detached ImageBitmap
Usable(frameData) == ~frameData.detached

\* loadFrames lines 50-76: the previous frame's disposal applied to the canvas.
\* The result is <<"ok", canvas>> or <<"throw", reason>>.
Dispose(cv, prev, restorePoint, datas) ==
  IF prev = <<>> THEN <<"ok", cv>>
  ELSE IF prev[1].disposal \in {0, 1} THEN <<"ok", cv>>
  ELSE IF prev[1].disposal = 2 THEN <<"ok", clearRect(cv, prev[1].x, prev[1].width)>>
  ELSE IF prev[1].disposal = 3 THEN
    IF restorePoint = <<>> THEN <<"throw", "No previous frame to restore">>
    ELSE IF ~Usable(datas[restorePoint[1]]) THEN <<"throw", "InvalidStateError">>
    ELSE <<"ok", drawImage(cv, datas[restorePoint[1]].data)>>
  ELSE <<"ok", cv>>

\* loadFrames line 47: the loop ends, the generator returns and so does the
\* worker's for await
LoadFramesReturn ==
  /\ rpc = "loop"
  /\ i >= numFrames
  /\ rpc' = "done"
  /\ UNCHANGED <<gif, i, canvas, scratchData, prevFrameInfo, prevRestorePoint,
                 frameDatas, posted>>
  /\ UNCHANGED decodeOthers

\* loadFrames lines 47-76
LoadFramesDispose ==
  /\ rpc = "loop"
  /\ i < numFrames
  /\ LET r == Dispose(canvas, prevFrameInfo, prevRestorePoint, frameDatas)
     IN IF r[1] = "ok"
        THEN canvas' = r[2] /\ rpc' = "paint"
        ELSE canvas' = canvas /\ rpc' = "threw"
  /\ UNCHANGED <<gif, i, scratchData, prevFrameInfo, prevRestorePoint,
                 frameDatas, posted>>
  /\ UNCHANGED decodeOthers

\* loadFrames lines 78-88
LoadFramesPaint ==
  /\ rpc = "paint"
  /\ scratchData' = decodeAndBlitFrameRGBA(scratchData, frameInfo)
  /\ canvas' = putImageData(canvas, scratchData', frameInfo.x, frameInfo.width)
  /\ rpc' = "snapshot"
  /\ UNCHANGED <<gif, i, prevFrameInfo, prevRestorePoint, frameDatas, posted>>
  /\ UNCHANGED decodeOthers

\* a plausible slip of line 93: the bitmap holds the frame's rectangle only
RectOnlyFrameData(cv, f, index) ==
  [index |-> index, data |-> putImageData(BlankImage, cv, f.x, f.width),
   detached |-> FALSE, delay |-> f.delay,
   palette |-> convertPalette(f.palette), isPaletteGlobal |-> ~f.has_local_palette]

\* loadFrames lines 90-97: the GifFrameData of frame i; createImageBitmap(canvas)
\* copies the canvas as it is then
NewFrameData(cv, f, index) ==
  [index |-> index, data |-> cv, detached |-> FALSE, delay |-> f.delay,
   palette |-> convertPalette(f.palette), isPaletteGlobal |-> ~f.has_local_palette]

\* loadFrames lines 90-99: createImageBitmap(canvas) and yield
LoadFramesYield ==
  /\ rpc = "snapshot"
  /\ frameDatas' = Append(frameDatas, NewFrameData(canvas, frameInfo, i))
  /\ rpc' = "yielded"
  /\ UNCHANGED <<gif, i, canvas, scratchData, prevFrameInfo, prevRestorePoint, posted>>
  /\ UNCHANGED decodeOthers

\* postMessage's transfer list: the ImageBitmap and the palette's buffer are
\* detached on the sending side
Transferred(frameData) == [frameData EXCEPT !.detached = TRUE, !.palette = <<>>]

\* the frame message as the receiver gets it
FrameMessage(frameData) ==
  [type |-> "frame",
   value |-> [index |-> frameData.index, data |-> frameData.data,
              delay |-> frameData.delay, palette |-> frameData.palette,
              isPaletteGlobal |-> frameData.isPaletteGlobal]]

\* gif-reader.worker lines 32-42: the body of for await
ReadWorkerPostFrame ==
  /\ rpc = "yielded"
  /\ posted' = Append(posted, FrameMessage(frameDatas[Len(frameDatas)]))
  /\ frameDatas' = [frameDatas EXCEPT ![Len(frameDatas)] = Transferred(@)]
  /\ rpc' = "resume"
  /\ UNCHANGED <<gif, i, canvas, scratchData, prevFrameInfo, prevRestorePoint>>
  /\ UNCHANGED decodeOthers

\* a plausible slip of line 101: every frame becomes the restore point
AlwaysThisFrame(restorePoint, info, created) == <<created>>

\* only a frame that is not RestorePrevious becomes the restore point, the
\* first frame included
OnlyNonRestorePrevious(restorePoint, info, created) ==
  IF info.disposal # 3 THEN <<created>> ELSE restorePoint

\* loadFrames line 101: which frame is the restore point after frame `info`
NextRestorePoint(restorePoint, info, created) ==
  IF restorePoint = <<>> \/ info.disposal # 3 THEN <<created>> ELSE restorePoint

\* loadFrames lines 101-104 and the loop's i++
LoadFramesResume ==
  /\ rpc = "resume"
  /\ prevRestorePoint' = NextRestorePoint(prevRestorePoint, frameInfo, Len(frameDatas))
  /\ prevFrameInfo' = <<frameInfo>>
  /\ i' = i + 1
  /\ rpc' = "loop"
  /\ UNCHANGED <<gif, canvas, scratchData, frameDatas, posted>>
  /\ UNCHANGED decodeOthers

\* the files FileEditor is given are numbered 0 (on mount) and 1 (a changed
\* sourceFile prop); file k has the storage key k (`${file.name}_${file.size}`)
FileKeys == {0, 1}

\* localStorage with no item under either key
NothingStored == [key \in FileKeys |-> <<>>]

\* the main thread before any message: readGifFromFile's and FileEditor's
\* initial values, no export under way
InitMain ==
  /\ delivered = 0
  /\ framesRemaining = <<>>
  /\ resolved = {}
  /\ readWorker = 0
  /\ staleCount = 0
  /\ image = <<>>
  /\ frames = <<>>
  /\ frameStates = <<>>
  /\ selectedFrame = 0
  /\ sourceFile = 0
  /\ uiError = "none"
  /\ isPlaying = FALSE
  /\ exportError = "none"
  /\ wpc = "idle"
  /\ framesToSave = <<>>
  /\ sendIdx = 0
  /\ toWriter = <<>>
  /\ handled = 0
  /\ writer = <<>>
  /\ bufferPosted = <<>>
  /\ saved = <<>>
  /\ transferred = {}

\* the files of the decode runs: every rectangle and disposal method
DecodeFrameInfos == FrameInfos(Rects, Disposals, {1}, {FALSE}, {1}, {NoTransparentIndex})

InitDecode ==
  /\ gif \in FilesOf(DecodeFrameInfos)
  /\ rpc = "none"
  /\ i = 0
  /\ canvas = BlankImage
  /\ scratchData = BlankImage
  /\ prevFrameInfo = <<>>
  /\ prevRestorePoint = <<>>
  /\ frameDatas = <<>>
  /\ posted = <<>>
  /\ lpc = "unused"
  /\ result = <<>>
  /\ storage = NothingStored
  /\ InitMain

\* the files a changed sourceFile prop brings: full frames, delay 1
SecondFiles ==
  FilesOf(FrameInfos({<<0, Width>>}, {1}, {1}, {FALSE}, {1}, {NoTransparentIndex}))

\* the handler of the worker readGifFromFile made for the changed sourceFile.
\* The workers run side by side; the one of the file before is followed to
\* the end of its handler first, then this one.
NextReadWorkerOnMessage ==
  /\ readWorker < sourceFile
  /\ rpc \in {"done", "threw"}
  /\ \E g \in SecondFiles :
       /\ gif' = g
       /\ ReadWorkerBegin(g)
  /\ frameDatas' = <<>>
  /\ readWorker' = sourceFile
  /\ staleCount' = Len(posted)
  /\ UNCHANGED <<delivered, framesRemaining, resolved>>
  /\ UNCHANGED <<legacyVars, editorVars, exportVars>>

NextDecode ==
  \/ ReadGifFromFile
  \/ ReadWorkerOnMessage
  \/ LoadFramesReturn
  \/ LoadFramesDispose
  \/ LoadFramesPaint
  \/ LoadFramesYield
  \/ ReadWorkerPostFrame
  \/ LoadFramesResume

SpecDecode == InitDecode /\ [][NextDecode]_vars

\* ------------------------------------------------- gif.ts: the older loader
\* gif.ts lines 75-77: result.filter(index === 0 || disposal !== 3), its last
LegacyRestorePoint(res) ==
  LET restorePoints == SelectSeq(res, LAMBDA frame : frame.index = 0 \/ frame.disposal # 3)
  IN restorePoints[Len(restorePoints)]

\* gif.ts lines 57-83: the previous frame's disposal applied to the canvas
LegacyDisposeCanvas(cv, prev, res) ==
  IF prev = <<>> THEN cv
  ELSE IF prev[1].disposal \in {0, 1} THEN cv
  ELSE IF prev[1].disposal = 2 THEN clearRect(cv, prev[1].x, prev[1].width)
  ELSE IF prev[1].disposal = 3 THEN drawImage(cv, LegacyRestorePoint(res).data)
  ELSE cv

\* gif.ts line 54 and 111: the loop ends, result is returned
LegacyReturn ==
  /\ lpc = "loop"
  /\ i >= numFrames
  /\ lpc' = "done"
  /\ UNCHANGED <<decodeVars, result, readerVars, editorVars, exportVars>>

\* gif.ts lines 54-83
LegacyDispose ==
  /\ lpc = "loop"
  /\ i < numFrames
  /\ canvas' = LegacyDisposeCanvas(canvas, prevFrameInfo, result)
  /\ lpc' = "paint"
  /\ UNCHANGED <<gif, rpc, i, scratchData, prevFrameInfo, prevRestorePoint,
                 frameDatas, posted, result>>
  /\ UNCHANGED <<readerVars, editorVars, exportVars>>

\* gif.ts lines 85-95
LegacyPaint ==
  /\ lpc = "paint"
  /\ scratchData' = decodeAndBlitFrameRGBA(scratchData, frameInfo)
  /\ canvas' = putImageData(canvas, scratchData', frameInfo.x, frameInfo.width)
  /\ lpc' = "snapshot"
  /\ UNCHANGED <<gif, rpc, i, prevFrameInfo, prevRestorePoint, frameDatas,
                 posted, result>>
  /\ UNCHANGED <<readerVars, editorVars, exportVars>>

\* gif.ts lines 99-108: result[i]
LegacyFrameData(cv, f, index) ==
  [index |-> index, disposal |-> f.disposal, delay |-> f.delay, data |-> cv,
   paletteLocal |-> IF f.has_local_palette THEN convertPalette(f.palette) ELSE <<>>,
   paletteGlobal |-> IF f.has_local_palette THEN <<>> ELSE convertPalette(f.palette)]

\* gif.ts lines 97-110 and the loop's i++
LegacySnapshot ==
  /\ lpc = "snapshot"
  /\ result' = Append(result, LegacyFrameData(canvas, frameInfo, i))
  /\ prevFrameInfo' = <<frameInfo>>
  /\ i' = i + 1
  /\ lpc' = "loop"
  /\ UNCHANGED <<gif, rpc, canvas, scratchData, prevRestorePoint, frameDatas, posted>>
  /\ UNCHANGED <<readerVars, editorVars, exportVars>>

InitLegacy ==
  /\ gif \in FilesOf(DecodeFrameInfos)
  /\ rpc = "unused"
  /\ i = 0
  /\ canvas = BlankImage
  /\ scratchData = BlankImage
  /\ prevFrameInfo = <<>>
  /\ prevRestorePoint = <<>>
  /\ frameDatas = <<>>
  /\ posted = <<>>
  /\ lpc = "loop"
  /\ result = <<>>
  /\ storage = NothingStored
  /\ InitMain

NextLegacy ==
  \/ LegacyReturn
  \/ LegacyDispose
  \/ LegacyPaint
  \/ LegacySnapshot

SpecLegacy == InitLegacy /\ [][NextLegacy]_vars

\* ------------------------------------ the main thread: reader and editor
\* FileEditor: const frameCount = image?.frameCount ?? 0
frameCount == IF image = <<>> THEN 0 ELSE image[1].frameCount

\* FileEditor line 207: one {} per frame (deleted undefined, read as false)
NewFrameStates(n) == [k \in 1 .. n |-> [deleted |-> FALSE]]

\* loadFileState (lines 604-613): JSON.parse of the item under the file's key,
\* <<>> for null
loadFileState(file) == storage[file]

\* saveFileState (lines 615-618), as localStorage is after it
saveFileState(st, file, states) == [st EXCEPT ![file] = <<states>>]

\* the effect of lines 231-235, run when setFrameStates was given a new array
SaveEffect(st, file, old, new) ==
  IF new # old /\ Len(new) > 0 THEN saveFileState(st, file, new) ELSE st

\* the redraw effects throw a TypeError reading .deleted of a missing
\* frameStates[i]: the scrubber's (lines 289-299) for an i < frameCount other
\* than the selected frame, the thumbnails' (lines 312-315) for an i < frames.length
RenderThrows(img, fs, states, selected) ==
  /\ img # <<>>
  /\ \/ \E k \in 0 .. (img[1].frameCount - 1) : k # selected /\ k >= Len(states)
     \/ Len(fs) > Len(states)

\* what a render leaves in uiError
Rendered(img, fs, states, selected) ==
  IF RenderThrows(img, fs, states, selected) THEN "TypeError" ELSE "none"

\* the file of the worker that posted posted[k]
MessageFile(k) == IF k <= staleCount THEN readWorker - 1 ELSE readWorker

\* readGifFromFile's worker.onmessage (lines 17-27) and the callback FileEditor
\* gives it (lines 202-214), whose sourceFile is the file of the call.  Once
\* FileEditor is unmounted by an error its setters do nothing.
ReaderOnMessage ==
  /\ delivered < Len(posted)
  /\ LET m == posted[delivered + 1]
         file == MessageFile(delivered + 1)
     IN /\ framesRemaining' =
             IF m.type = "metadata" THEN <<m.value.frameCount>>
             ELSE IF framesRemaining # <<>> THEN <<framesRemaining[1] - 1>>
             ELSE <<>>
        /\ resolved' = IF framesRemaining' = <<0>> THEN resolved \cup {file} ELSE resolved
        /\ IF uiError # "none" THEN UNCHANGED editorVars
           ELSE IF m.type = "metadata"
           THEN /\ frameStates' = IF loadFileState(file) # <<>> THEN loadFileState(file)[1]
                                  ELSE NewFrameStates(m.value.frameCount)
                /\ selectedFrame' = 0
                /\ image' = <<m.value>>
                /\ frames' = frames
                /\ storage' = IF Len(frameStates') > 0
                              THEN saveFileState(storage, sourceFile, frameStates')
                              ELSE storage
                /\ uiError' = Rendered(image', frames', frameStates', selectedFrame')
                /\ UNCHANGED <<sourceFile, isPlaying>>
           ELSE /\ frames' = Append(frames, m.value)
                /\ uiError' = Rendered(image, frames', frameStates, selectedFrame)
                /\ UNCHANGED <<frameStates, selectedFrame, image, sourceFile, storage,
                               isPlaying>>
  /\ delivered' = delivered + 1
  /\ UNCHANGED <<readWorker, staleCount>>
  /\ UNCHANGED <<decodeVars, legacyVars, exportVars>>

\* gotoFrame (lines 379-389): the selected frame after gotoFrame(newFrame);
\* layout is non-null once image is set
gotoFrame(newFrame) ==
  IF image # <<>> /\ newFrame >= 0 /\ newFrame < frameCount
  THEN newFrame ELSE selectedFrame

\* an updater that flips the flag whatever the key
toggleDeleted(curr, selected, value) ==
  [curr EXCEPT ![selected + 1].deleted = ~curr[selected + 1].deleted]

\* the updater of setFrameStates in onKeyDown (lines 424-429, 432-437)
markDeleted(curr, selected, value) ==
  IF curr[selected + 1].deleted = value THEN curr
  ELSE [curr EXCEPT ![selected + 1].deleted = value]

\* onKeyDown, ArrowDown or ArrowUp (lines 423-438), which returns at line 405
\* while playing: the updater reads curr[selectedFrame].deleted, a TypeError
\* when there is no such entry
KeyMark(value) ==
  /\ uiError = "none"
  /\ ~isPlaying
  /\ IF selectedFrame < Len(frameStates)
     THEN /\ frameStates' = markDeleted(frameStates, selectedFrame, value)
          /\ selectedFrame' = gotoFrame(selectedFrame + 1)
          /\ storage' = SaveEffect(storage, sourceFile, frameStates, frameStates')
          /\ uiError' = Rendered(image, frames, frameStates', selectedFrame')
     ELSE /\ uiError' = "TypeError"
          /\ UNCHANGED <<frameStates, selectedFrame, storage>>
  /\ UNCHANGED <<image, frames, sourceFile, isPlaying>>
  /\ UNCHANGED <<decodeVars, legacyVars, readerVars, exportVars>>

\* onKeyDown, ArrowDown (lines 423-430)
KeyArrowDown == KeyMark(TRUE)

\* onKeyDown, ArrowUp (lines 431-438)
KeyArrowUp == KeyMark(FALSE)

\* setSelectedFrame(newFrame) and the render that follows
Select(newFrame) ==
  /\ selectedFrame' = newFrame
  /\ uiError' = Rendered(image, frames, frameStates, selectedFrame')
  /\ UNCHANGED <<image, frames, frameStates, sourceFile, storage, isPlaying>>
  /\ UNCHANGED <<decodeVars, legacyVars, readerVars, exportVars>>

\* onKeyDown, ArrowRight without alt (lines 407-414)
KeyArrowRight ==
  /\ uiError = "none"
  /\ ~isPlaying
  /\ Select(gotoFrame(selectedFrame + 1))

\* onKeyDown, ArrowLeft without alt (lines 415-422)
KeyArrowLeft ==
  /\ uiError = "none"
  /\ ~isPlaying
  /\ Select(gotoFrame(selectedFrame - 1))

\* clientX of a click inside the canvas, whose width is layout.timeline1.width
ClientXs == 0 .. (CanvasWidth - 1)

\* onClick on the thumbnail strip (lines 358-367): the thumbnail hit is i, any
\* of -1 .. frameCount by where the strip is scrolled to.  The editor has no
\* onClick while playing (line 467).
ClickThumbnail ==
  /\ uiError = "none"
  /\ ~isPlaying
  /\ image # <<>>
  /\ \E k \in -1 .. frameCount :
       Select(IF k >= 0 /\ k < frameCount THEN k ELSE selectedFrame)

\* onClick on the scrubber (lines 368-373): Math.floor(clientX / width * frameCount)
ClickScrubber ==
  /\ uiError = "none"
  /\ ~isPlaying
  /\ image # <<>>
  /\ \E clientX \in ClientXs : Select((clientX * frameCount) \div CanvasWidth)

\* onKeyDown, the space key (lines 399-404), and the button of PlayControl
\* (line 173): setIsPlaying(!isPlaying); when playing stops, the key also calls
\* gotoFrame(selectedFrame), which selects the frame already selected
KeySpace ==
  /\ uiError = "none"
  /\ isPlaying' = ~isPlaying
  /\ selectedFrame' = IF isPlaying THEN gotoFrame(selectedFrame) ELSE selectedFrame
  /\ uiError' = Rendered(image, frames, frameStates, selectedFrame')
  /\ UNCHANGED <<image, frames, frameStates, sourceFile, storage>>
  /\ UNCHANGED <<decodeVars, legacyVars, readerVars, exportVars>>

RECURSIVE timeline(_)
\* PlayControl's timeline (lines 136-146): [0, d0 * 10, (d0 + d1) * 10, ...]
timeline(fs) ==
  IF fs = <<>> THEN <<0>>
  ELSE LET t == timeline(SubSeq(fs, 1, Len(fs) - 1))
       IN Append(t, t[Len(t)] + fs[Len(fs)].delay * 10)

\* lastIndexOf (lines 631-641) without fromIndex and with the predicate of
\* line 156, (t) => t <= newTime: the last 0-based index whose item satisfies
\* it, or -1
lastIndexOf(array, newTime) ==
  LET found == {k \in 0 .. (Len(array) - 1) : array[k + 1] <= newTime}
  IN IF found = {} THEN -1 ELSE CHOOSE k \in found : \A j \in found : j <= k

\* newTime of line 155, (currentTime + ellapsed) % totalTime for an ellapsed of
\* any number of milliseconds >= 1: <<t>>, or <<>> for NaN when totalTime is 0.
\* Of the times below totalTime, the first and the last millisecond of every
\* frame's interval are followed.
NewTimes(tl) ==
  IF tl[Len(tl)] = 0 THEN {<<>>}
  ELSE {<<t>> : t \in {u \in {tl[k] : k \in 1 .. Len(tl)} \cup
                               {tl[k] - 1 : k \in 1 .. Len(tl)} :
                        u >= 0 /\ u < tl[Len(tl)]}}

\* the requestAnimationFrame callback of PlayControl (lines 152-159) calling
\* updateFrame (lines 238-245).  No t <= NaN holds, so frameIndex is -1 then;
\* reading .deleted of a missing frameStates[frameIndex] throws out of the
\* callback, outside any render, and nothing is set.
PlayTick ==
  /\ uiError = "none"
  /\ isPlaying
  /\ \E newTime \in NewTimes(timeline(frames)) :
       LET frameIndex == IF newTime = <<>> THEN -1
                         ELSE lastIndexOf(timeline(frames), newTime[1])
       IN IF /\ frameIndex >= 0
             /\ frameIndex < Len(frameStates)
             /\ ~frameStates[frameIndex + 1].deleted
          THEN Select(frameIndex)
          ELSE UNCHANGED vars

\* FileEditor's effect of lines 200-216 run again for a changed sourceFile
\* prop: setFrames([]) and readGifFromFile(sourceFile, ...), which makes a new
\* worker.  Neither the effect nor readGifFromFile ends the worker of the file
\* before.
SourceFileChange ==
  /\ uiError = "none"
  /\ rpc # "none"
  /\ sourceFile = 0
  /\ sourceFile' = 1
  /\ frames' = <<>>
  /\ uiError' = Rendered(image, frames', frameStates, selectedFrame)
  /\ UNCHANGED <<image, frameStates, selectedFrame, storage, isPlaying>>
  /\ UNCHANGED <<decodeVars, legacyVars, readerVars, exportVars>>

\* ---------------------------------------------------------------- download
RECURSIVE DownloadLoop(_, _, _, _, _)
\* download lines 448-455 from loop index k on, acc being framesToSave so far.
\* The result is <<"ok", framesToSave>> or <<"throw", "TypeError">>: reading
\* .deleted of a missing frameStates[k] or .delay of framesToSave[-1] throws.
DownloadLoop(k, acc, fs, states, n) ==
  IF k >= n THEN <<"ok", acc>>
  ELSE IF k + 1 > Len(states) THEN <<"throw", "TypeError">>
  ELSE IF states[k + 1].deleted
       THEN IF acc = <<>> THEN <<"throw", "TypeError">>
            ELSE DownloadLoop(k + 1,
                              [acc EXCEPT ![Len(acc)].delay = @ + fs[k + 1].delay],
                              fs, states, n)
       ELSE DownloadLoop(k + 1, Append(acc, fs[k + 1]), fs, states, n)

\* plausible slips of download's loop
RECURSIVE DropWithoutMerge(_, _, _, _, _)
DropWithoutMerge(k, acc, fs, states, n) ==
  IF k >= n THEN <<"ok", acc>>
  ELSE IF states[k + 1].deleted
       THEN IF acc = <<>> THEN <<"throw", "TypeError">>
            ELSE DropWithoutMerge(k + 1, acc, fs, states, n)
       ELSE DropWithoutMerge(k + 1, Append(acc, fs[k + 1]), fs, states, n)

FramesToSaveNoMerge(fs, states, n) == DropWithoutMerge(0, <<>>, fs, states, n)

RECURSIVE MergeOntoFirst(_, _, _, _, _)
MergeOntoFirst(k, acc, fs, states, n) ==
  IF k >= n THEN <<"ok", acc>>
  ELSE IF states[k + 1].deleted
       THEN IF acc = <<>> THEN <<"throw", "TypeError">>
            ELSE MergeOntoFirst(k + 1, [acc EXCEPT ![1].delay = @ + fs[k + 1].delay],
                                fs, states, n)
       ELSE MergeOntoFirst(k + 1, Append(acc, fs[k + 1]), fs, states, n)

FramesToSaveOntoFirst(fs, states, n) == MergeOntoFirst(0, <<>>, fs, states, n)

RECURSIVE AssignDelay(_, _, _, _, _)
\* a plausible slip of download line 451: = for +=
AssignDelay(k, acc, fs, states, n) ==
  IF k >= n THEN <<"ok", acc>>
  ELSE IF states[k + 1].deleted
       THEN IF acc = <<>> THEN <<"throw", "TypeError">>
            ELSE AssignDelay(k + 1, [acc EXCEPT ![Len(acc)].delay = fs[k + 1].delay],
                             fs, states, n)
       ELSE AssignDelay(k + 1, Append(acc, fs[k + 1]), fs, states, n)

FramesToSaveDelayAssigned(fs, states, n) == AssignDelay(0, <<>>, fs, states, n)

\* download lines 447-455: framesToSave, or what the loop throws
FramesToSave(fs, states, n) == DownloadLoop(0, <<>>, fs, states, n)

\* a plausible slip of line 23: the palette of the first frame, global or not
FirstFramePalette(fs) == IF fs = <<>> THEN <<>> ELSE fs[1].palette

\* writeGifToFile lines 23-26: frames.find((f) => f.isPaletteGlobal)?.palette,
\* <<>> for undefined
GlobalPaletteOf(fs) ==
  IF \E k \in 1 .. Len(fs) : fs[k].isPaletteGlobal
  THEN fs[CHOOSE k \in 1 .. Len(fs) :
            fs[k].isPaletteGlobal /\ \A j \in 1 .. (k - 1) : ~fs[j].isPaletteGlobal].palette
  ELSE <<>>

\* a plausible slip of download line 457: the file's frameCount left in place
MetadataOfSourceFile(img, fs) ==
  [type |-> "metadata",
   value |-> [width |-> IF img = <<>> THEN <<>> ELSE <<img[1].width>>,
              frameCount |-> IF img = <<>> THEN 0 ELSE img[1].frameCount,
              palette |-> GlobalPaletteOf(fs)]]

\* writeGifToFile lines 28-36 over download's { ...image!, frameCount }: width
\* is <<>> when image is undefined
MetadataMessage(img, fs) ==
  [type |-> "metadata",
   value |-> [width |-> IF img = <<>> THEN <<>> ELSE <<img[1].width>>,
              frameCount |-> Len(fs),
              palette |-> GlobalPaletteOf(fs)]]

\* a plausible slip of download line 453: the frame itself pushed, so that the
\* delays of the deleted frames are added to the editor's frame
FramesSharedWithExport(fs, states, n) ==
  LET r == FramesToSave(fs, states, n)
  IN IF r[1] = "throw" THEN fs
     ELSE [k \in 1 .. Len(fs) |->
             IF \E e \in 1 .. Len(r[2]) : r[2][e].index = fs[k].index
             THEN r[2][CHOOSE e \in 1 .. Len(r[2]) : r[2][e].index = fs[k].index]
             ELSE fs[k]]

\* download lines 448-455, what they leave in the editor's frames: a frame
\* kept is pushed as a copy, { ...frame }, and the delays of the deleted frames
\* are added to the copy
FramesAfterDownload(fs, states, n) == fs

\* the main thread's objects a frame refers to, its ImageBitmap and the buffer
\* of its palette: those of the frame the editor holds, which the copy of
\* download shares, or those of the clone writeGifToFile makes
HeldObjects(frame) == [of |-> "held", index |-> frame.index]

ClonedObjects(frame) == [of |-> "clone", index |-> frame.index]

\* writeGifToFile lines 23-36: the transfer list of the metadata message, the
\* buffer of globalPalette.slice() if there is a global palette
MetadataTransfer(fs) ==
  IF GlobalPaletteOf(fs) = <<>> THEN {} ELSE {[of |-> "globalPalette", index |-> 0]}

\* writeGifToFile lines 39-53: the transfer list of a frame message,
\* [clonedFrame.data, clonedFrame.palette.buffer], clonedFrame.data being
\* createImageBitmap(frame.data) and clonedFrame.palette frame.palette.slice()
FrameTransfer(frame) == {ClonedObjects(frame)}

\* the export pipeline started last has nothing left to do
ExportQuiescent ==
  /\ wpc \in {"idle", "sent"}
  /\ handled = Len(toWriter)
  /\ Len(saved) = Len(bufferPosted)

\* the download button is enabled (line 477)
DownloadEnabled == Len(frames) = frameCount

\* a click on the download button: download (lines 446-461), and, unless its
\* loop throws, writeGifToFile up to its first await (lines 14-41).  Every call
\* makes its own worker; one export is followed at a time, and the clones and
\* the palette copy of the export before are dropped from `transferred`.
Download ==
  /\ uiError = "none"
  /\ DownloadEnabled
  /\ ExportQuiescent
  /\ LET r == FramesToSave(frames, frameStates, frameCount)
     IN IF r[1] = "throw"
        THEN /\ exportError' = r[2]
             /\ wpc' = "idle"
             /\ framesToSave' = <<>>
             /\ toWriter' = <<>>
        ELSE /\ exportError' = "none"
             /\ wpc' = IF r[2] = <<>> THEN "sent" ELSE "sending"
             /\ framesToSave' = r[2]
             /\ toWriter' = <<MetadataMessage(image, r[2])>>
  /\ sendIdx' = 0
  /\ handled' = 0
  /\ writer' = <<>>
  /\ bufferPosted' = <<>>
  /\ saved' = <<>>
  /\ transferred' = {o \in transferred : o.of = "held"} \cup
                      (IF toWriter' = <<>> THEN {} ELSE MetadataTransfer(framesToSave'))
  /\ frames' = FramesAfterDownload(frames, frameStates, frameCount)
  /\ UNCHANGED <<image, frameStates, selectedFrame, sourceFile, storage, uiError,
                 isPlaying>>
  /\ UNCHANGED <<decodeVars, legacyVars, readerVars>>

\* writeGifToFile lines 38-54: one turn of the loop, the frame cloned and posted
WriteGifPostFrame ==
  /\ wpc = "sending"
  /\ toWriter' = Append(toWriter, [type |-> "frame", value |-> framesToSave[sendIdx + 1]])
  /\ sendIdx' = sendIdx + 1
  /\ wpc' = IF sendIdx + 1 = Len(framesToSave) THEN "sent" ELSE "sending"
  /\ transferred' = transferred \cup FrameTransfer(framesToSave[sendIdx + 1])
  /\ UNCHANGED <<exportError, framesToSave, handled, writer, bufferPosted, saved>>
  /\ UNCHANGED <<decodeVars, legacyVars, readerVars, editorVars>>

\* -------------------------------------------------------- the encode worker
\* (r << 16) + (g << 8) + b of a pixel of the ImageData (encodeImage 158-161)
PackedColor(pixel) == pixel[1] * 65536 + pixel[2] * 256 + pixel[3]

\* indexedColors[color] as stored into the Uint8Array: the last index holding
\* the colour, and 0 when the lookup is undefined
IndexedColor(palette, color) ==
  IF \E k \in 1 .. Len(palette) : palette[k] = color
  THEN (CHOOSE k \in 1 .. Len(palette) :
          palette[k] = color /\ \A j \in (k + 1) .. Len(palette) : palette[j] # color) - 1
  ELSE 0

\* encodeImage (lines 151-165)
encodeImage(imageData, palette) ==
  [p \in Xs |-> IndexedColor(palette, PackedColor(imageData[p]))]

\* GifWriter.addFrame(0, 0, width, height, pixels, {delay, palette}): the frame
\* is appended to the file being written; palette <<>> is undefined
GifWriterAddFrame(gf, pixels, frameOptions) ==
  [gf EXCEPT !.frames = Append(@, [pixels |-> pixels, delay |-> frameOptions.delay,
                                   palette |-> frameOptions.palette])]

\* beginFile (lines 117-130): the state its closures share
beginFile(metadata) ==
  [framesRemaining |-> metadata.frameCount,
   canvas |-> BlankImage,
   gf |-> [palette |-> metadata.palette, frames |-> <<>>]]

\* beginFile's addFrame (lines 132-142)
addFrame(w, frame) ==
  LET cv == drawImage(w.canvas, frame.data)
      pixels == encodeImage(cv, frame.palette)
      frameOptions == [delay |-> frame.delay,
                       palette |-> IF frame.isPaletteGlobal THEN <<>> ELSE frame.palette]
  IN [framesRemaining |-> w.framesRemaining - 1,
      canvas |-> cv,
      gf |-> GifWriterAddFrame(w.gf, pixels, frameOptions)]

\* beginFile's done (line 146)
done(w) == w.framesRemaining = 0

\* beginFile's buffer (line 147): the file written so far
buffer(w) == w.gf

\* gif-writer.worker onmessage (lines 21-39).  new OffscreenCanvas(undefined,
\* undefined) throws in beginFile, which leaves writer null.
WriteWorkerOnMessage ==
  /\ handled < Len(toWriter)
  /\ LET m == toWriter[handled + 1]
     IN IF m.type = "metadata"
        THEN /\ writer' = IF m.value.width = <<>> THEN writer ELSE <<beginFile(m.value)>>
             /\ bufferPosted' = bufferPosted
        ELSE IF writer # <<>>
        THEN LET w == addFrame(writer[1], m.value)
             IN /\ writer' = <<w>>
                /\ bufferPosted' = IF done(w) THEN Append(bufferPosted, buffer(w))
                                   ELSE bufferPosted
        ELSE UNCHANGED <<writer, bufferPosted>>
  /\ handled' = handled + 1
  /\ UNCHANGED <<exportError, wpc, framesToSave, sendIdx, toWriter, saved, transferred>>
  /\ UNCHANGED <<decodeVars, legacyVars, readerVars, editorVars>>

\* writeGifToFile's worker.onmessage (lines 17-21): saveFile and resolve
WriterOnMessage ==
  /\ Len(saved) < Len(bufferPosted)
  /\ saved' = Append(saved, bufferPosted[Len(saved) + 1])
  /\ UNCHANGED <<exportError, wpc, framesToSave, sendIdx, toWriter, handled,
                 writer, bufferPosted, transferred>>
  /\ UNCHANGED <<decodeVars, legacyVars, readerVars, editorVars>>

\* the files of the editing runs: full frames, delays 1 .. MaxDelay
TimingFrameInfos ==
  FrameInfos({<<0, Width>>}, {1}, 1 .. MaxDelay, {FALSE}, {1}, {NoTransparentIndex})

\* the files of the encoding runs: full and partial frames, either colour of
\* the global or of a local colour table
PixelFrameInfos ==
  FrameInfos({<<0, Width>>, <<0, 1>>}, {1}, {1}, BOOLEAN, {0, 1}, {NoTransparentIndex})

InitWorkers ==
  /\ rpc = "none"
  /\ i = 0
  /\ canvas = BlankImage
  /\ scratchData = BlankImage
  /\ prevFrameInfo = <<>>
  /\ prevRestorePoint = <<>>
  /\ frameDatas = <<>>
  /\ posted = <<>>
  /\ lpc = "unused"
  /\ result = <<>>
  /\ storage = NothingStored
  /\ InitMain

InitEditor == gif \in FilesOf(TimingFrameInfos) /\ InitWorkers

InitEncode == gif \in FilesOf(PixelFrameInfos) /\ InitWorkers

NextEncode ==
  \/ NextDecode
  \/ ReaderOnMessage
  \/ Download
  \/ WriteGifPostFrame
  \/ WriteWorkerOnMessage
  \/ WriterOnMessage

\* decode, marking frames with ArrowDown / ArrowUp, and export
NextEditor ==
  \/ NextEncode
  \/ KeyArrowDown
  \/ KeyArrowUp

SpecEditor == InitEditor /\ [][NextEditor]_vars

\* decode, the keyboard, clicks and playback, no export
NextKeys ==
  \/ NextDecode
  \/ ReaderOnMessage
  \/ KeyArrowDown
  \/ KeyArrowUp
  \/ KeyArrowRight
  \/ KeyArrowLeft
  \/ ClickThumbnail
  \/ ClickScrubber
  \/ KeySpace
  \/ PlayTick

\* the files of the navigation runs: full frames, a delay of 0 or 1, so that
\* playback meets frames that take no time and files whose total time is 0
KeysFrameInfos ==
  FrameInfos({<<0, Width>>}, {1}, {0, 1}, {FALSE}, {1}, {NoTransparentIndex})

InitKeys == gif \in FilesOf(KeysFrameInfos) /\ InitWorkers

SpecKeys == InitKeys /\ [][NextKeys]_vars

SpecEncode == InitEncode /\ [][NextEncode]_vars

\* a second local colour table
OtherLocalBytes == <<255, 255, 0, 0, 255, 255>>

\* the files of the palette runs: full frames that use the global colour
\* table or a local one, either of two
PaletteFrameInfos ==
  LET infos == FrameInfos({<<0, Width>>}, {1}, {1}, BOOLEAN, {1}, {NoTransparentIndex})
  IN infos \cup {[f EXCEPT !.palette = OtherLocalBytes] :
                    f \in {g \in infos : g.has_local_palette}}

InitPalette == gif \in FilesOf(PaletteFrameInfos) /\ InitWorkers

\* decode, marks and export of files with mixed colour tables
SpecPalette == InitPalette /\ [][NextEditor]_vars

\* decode of any file, or of bytes that are no GIF, and the main thread
\* receiving it
NextRead ==
  \/ NextDecode
  \/ ReadFileThrows
  \/ ReaderOnMessage

SpecRead == InitDecode /\ [][NextRead]_vars

\* decode, and a change of the sourceFile prop at any time after the mount
NextChange ==
  \/ NextDecode
  \/ ReaderOnMessage
  \/ SourceFileChange
  \/ NextReadWorkerOnMessage

InitChange == gif \in SecondFiles /\ InitWorkers

SpecChange == InitChange /\ [][NextChange]_vars

\* the arrays saveFileState can have stored in an earlier visit: one entry per
\* frame of the file edited then, 1 .. MaxFrames of them
StoredStates ==
  UNION { [1 .. n -> {[deleted |-> FALSE], [deleted |-> TRUE]}] : n \in 1 .. MaxFrames }

\* localStorage as an earlier visit left it: nothing under the file's key, or
\* what was saved for a file of the same name and size
InitStorage ==
  /\ gif \in SecondFiles
  /\ rpc = "none"
  /\ i = 0
  /\ canvas = BlankImage
  /\ scratchData = BlankImage
  /\ prevFrameInfo = <<>>
  /\ prevRestorePoint = <<>>
  /\ frameDatas = <<>>
  /\ posted = <<>>
  /\ lpc = "unused"
  /\ result = <<>>
  /\ \E item \in {<<>>} \cup { <<states>> : states \in StoredStates } :
       storage = [NothingStored EXCEPT ![0] = item]
  /\ InitMain

\* decode and marking frames, the marks saved to and restored from localStorage
NextStorage ==
  \/ NextDecode
  \/ ReaderOnMessage
  \/ KeyArrowDown
  \/ KeyArrowUp

SpecStorage == InitStorage /\ [][NextStorage]_vars

\* ---------------------------------------- beginFile called by any caller
\* the frames a caller hands to addFrame: the line in one colour of the
\* palette, or its first pixel only
AssemblerFrames ==
  { [index |-> 0, data |-> bitmap, delay |-> 1,
     palette |-> convertPalette(GlobalBytes), isPaletteGlobal |-> TRUE] :
    bitmap \in { [p \in Xs |-> <<0, 0, 0, 255>>],
                 [p \in Xs |-> <<255, 0, 0, 255>>],
                 [p \in Xs |-> IF p = 0 THEN <<255, 0, 0, 255>> ELSE TransparentPixel] } }

\* beginFile(metadata) for a frameCount of 0 .. MaxFrames
AssemblerBeginFile ==
  /\ writer = <<>>
  /\ \E n \in 0 .. MaxFrames :
       writer' = <<beginFile([width |-> <<Width>>, frameCount |-> n,
                             palette |-> convertPalette(GlobalBytes)])>>
  /\ UNCHANGED <<exportError, wpc, framesToSave, sendIdx, toWriter, handled,
                 bufferPosted, saved, transferred>>
  /\ UNCHANGED <<decodeVars, legacyVars, readerVars, editorVars>>

\* a call of the assembler's addFrame, whatever done() says; at most
\* MaxFrames + 1 calls are followed
AssemblerAddFrame ==
  /\ writer # <<>>
  /\ Len(writer[1].gf.frames) <= MaxFrames
  /\ \E frame \in AssemblerFrames : writer' = <<addFrame(writer[1], frame)>>
  /\ UNCHANGED <<exportError, wpc, framesToSave, sendIdx, toWriter, handled,
                 bufferPosted, saved, transferred>>
  /\ UNCHANGED <<decodeVars, legacyVars, readerVars, editorVars>>

\* a call of the assembler's buffer(), whatever done() says; what it returns
\* is kept in bufferPosted (the first call only)
AssemblerBuffer ==
  /\ writer # <<>>
  /\ bufferPosted = <<>>
  /\ bufferPosted' = <<buffer(writer[1])>>
  /\ UNCHANGED <<exportError, wpc, framesToSave, sendIdx, toWriter, handled,
                 writer, saved, transferred>>
  /\ UNCHANGED <<decodeVars, legacyVars, readerVars, editorVars>>

InitAssembler == gif = <<>> /\ InitWorkers

NextAssembler ==
  \/ AssemblerBeginFile
  \/ AssemblerAddFrame
  \/ AssemblerBuffer

SpecAssembler == InitAssembler /\ [][NextAssembler]_vars

\* ------------------------------------------------------------------ claims
\* the reader worker's handler has ended: loadFrames returned or threw
ReadWorkerEnded == rpc \in {"done", "threw"}

\* C1: the decode worker posts one metadata message first and then the
\* frames in index order 0, 1, ..., none twice; when its handler has ended it
\* has posted exactly frameCount frame messages.
C1_MetadataThenAllFramesInOrder ==
  /\ \A k \in 1 .. Len(posted) :
       IF k = 1 THEN posted[k].type = "metadata"
       ELSE posted[k].type = "frame" /\ posted[k].value.index = k - 2
  /\ ReadWorkerEnded => Len(posted) = numFrames + 1

\* the frame (1-based position in the file) RestorePrevious is to restore
\* after the first k frames: the last of them whose disposal is not 3, or
\* the first frame
LastNotRestorePrevious(k) ==
  IF \E j \in 1 .. k : gif[j].disposal # 3
  THEN CHOOSE j \in 1 .. k :
         gif[j].disposal # 3 /\ \A m \in (j + 1) .. k : gif[m].disposal = 3
  ELSE 1

\* C2: when the previous frame's disposal is RestorePrevious, the canvas the
\* next frame is painted on equals, pixel for pixel, the bitmap of the most
\* recent frame whose disposal is not RestorePrevious (or of frame 0).
C2_RestorePreviousIsExact ==
  (lpc = "paint" /\ prevFrameInfo # <<>> /\ prevFrameInfo[1].disposal = 3)
    => canvas = result[LastNotRestorePrevious(i)].data

\* C3: loadFrames never draws from a bitmap the worker has transferred: it is
\* never about to run the RestorePrevious disposal on a detached restore point.
C3_NoUseAfterTransfer ==
  ~ ( /\ rpc = "loop"
      /\ i < numFrames
      /\ prevFrameInfo # <<>>
      /\ prevFrameInfo[1].disposal = 3
      /\ prevRestorePoint # <<>>
      /\ frameDatas[prevRestorePoint[1]].detached )

\* a call of download that went on to writeGifToFile
ExportSubmitted == Download /\ wpc' # "idle"

RECURSIVE SumDelays(_, _, _)
\* the sum of the delays of frames a .. b (1-based positions)
SumDelays(fs, a, b) == IF a > b THEN 0 ELSE fs[a].delay + SumDelays(fs, a + 1, b)

\* the last frame of the run of deleted frames that follows frame j (j itself
\* when frame j + 1 is kept or missing)
RunEnd(states, j) ==
  CHOOSE m \in j .. Len(states) :
    /\ \A k \in (j + 1) .. m : states[k].deleted
    /\ m = Len(states) \/ ~states[m + 1].deleted

\* the first frame of the run of deleted frames that precedes frame j
RunStart(states, j) ==
  CHOOSE m \in 1 .. j :
    /\ \A k \in m .. (j - 1) : states[k].deleted
    /\ m = 1 \/ ~states[m - 1].deleted

\* C4: in an export, a kept frame that is followed by a run of deleted frames
\* is sent with its own delay plus the delays of all the frames of that run.
C4_DropMergeLaw ==
  [][ExportSubmitted =>
        \A j \in 1 .. (frameCount - 1) :
          (~frameStates[j].deleted /\ frameStates[j + 1].deleted) =>
            \E e \in 1 .. Len(framesToSave') :
              /\ framesToSave'[e].index = j - 1
              /\ framesToSave'[e].delay = SumDelays(frames, j, RunEnd(frameStates, j))]_vars

\* C4, its case: three frames, the last two deleted, exported as one frame
\* that carries the three delays
C4_Witness ==
  /\ wpc # "idle"
  /\ Len(frames) = 3
  /\ Len(framesToSave) = 1
  /\ framesToSave[1].delay = frames[1].delay + frames[2].delay + frames[3].delay

\* C5 as stated: every frame sent carries its own delay plus the delays of the
\* deleted frames immediately before it.
C5_DelayFromPrecedingDeleted ==
  [][ExportSubmitted =>
        \A e \in 1 .. Len(framesToSave') :
          LET j == framesToSave'[e].index + 1
          IN framesToSave'[e].delay = SumDelays(frames, RunStart(frameStates, j), j)]_vars

\* C5 as amended: the frames sent are the kept frames in index order, each
\* with its own delay plus the delays of the deleted frames immediately after
\* it, up to the next kept frame.
C5_DelayFromFollowingDeleted ==
  [][ExportSubmitted =>
        /\ Len(framesToSave') = Cardinality({k \in 1 .. frameCount : ~frameStates[k].deleted})
        /\ \A e \in 1 .. Len(framesToSave') :
             LET j == framesToSave'[e].index + 1
             IN /\ ~frameStates[j].deleted
                /\ framesToSave'[e].delay = SumDelays(frames, j, RunEnd(frameStates, j))
                /\ e > 1 => framesToSave'[e - 1].index < framesToSave'[e].index]_vars

\* C5, its case: frame 1 of three deleted, its delay sent with frame 0 and
\* not with frame 2
C5_Witness ==
  /\ wpc # "idle"
  /\ Len(frames) = 3
  /\ Len(framesToSave) = 2
  /\ framesToSave[1].delay = frames[1].delay + frames[2].delay
  /\ framesToSave[2].index = 2
  /\ framesToSave[2].delay = frames[3].delay

\* C6: with frame 0 deleted and some later frame kept, download raises no
\* error and sends a sequence that starts with the first kept frame.
C6_LeadingDeletedExportSucceeds ==
  [][(/\ Download
      /\ frameCount >= 1
      /\ frameStates[1].deleted
      /\ \E k \in 1 .. frameCount : ~frameStates[k].deleted) =>
        /\ exportError' = "none"
        /\ wpc' # "idle"
        /\ framesToSave' # <<>>
        /\ \A k \in 1 .. framesToSave'[1].index : frameStates[k].deleted
        /\ ~frameStates[framesToSave'[1].index + 1].deleted]_vars

\* C7: with every frame of the file deleted, download reports a failure and
\* starts no encode pipeline: no worker is sent anything.
C7_EmptySequenceReported ==
  [][(/\ Download
      /\ image # <<>>
      /\ \A k \in 1 .. frameCount : frameStates[k].deleted) =>
        /\ exportError' # "none"
        /\ wpc' = "idle"
        /\ toWriter' = <<>>]_vars

\* the bitmap a reader gets from frame k of a written file: every pixel is
\* the colour its index has in the frame's local colour table, or in the global
\* one, opaque (no transparent index is written)
ReadBack(file, k) ==
  LET table == IF file.frames[k].palette # <<>> THEN file.frames[k].palette
               ELSE file.palette
  IN [p \in Xs |->
        LET c == table[file.frames[k].pixels[p] + 1]
        IN <<c \div 65536, (c \div 256) % 256, c % 256, 255>>]

\* C8: a file exported with no frame deleted has the decoded frame count and
\* delays, and each written frame reads back, through its palette, as the
\* decoded composited frame, pixel for pixel.
C8_RoundTrip ==
  \A s \in 1 .. Len(saved) :
    (\A k \in 1 .. Len(frameStates) : ~frameStates[k].deleted) =>
      /\ Len(saved[s].frames) = Len(frames)
      /\ \A k \in 1 .. Len(saved[s].frames) :
           /\ saved[s].frames[k].delay = frames[k].delay
           /\ ReadBack(saved[s], k) = frames[k].data

\* the ImageData holds an opaque pixel whose packed colour is no entry of the
\* palette
ColorNotInPalette(imageData, palette) ==
  \E p \in Xs :
    /\ imageData[p][4] = 255
    /\ \A k \in 1 .. Len(palette) : palette[k] # PackedColor(imageData[p])

\* C9: when the frame the writer is given holds a colour that is not in its
\* palette, addFrame fails: nothing is written and the counter stays.
C9_ColorNotInPaletteFails ==
  [][(/\ WriteWorkerOnMessage
      /\ toWriter[handled + 1].type = "frame"
      /\ writer # <<>>
      /\ ColorNotInPalette(drawImage(writer[1].canvas, toWriter[handled + 1].value.data),
                           toWriter[handled + 1].value.palette)) =>
        /\ writer'[1].gf = writer[1].gf
        /\ writer'[1].framesRemaining = writer[1].framesRemaining]_vars

\* C10: in an export of a decoded file the encode worker posts at most one
\* buffer, only one that holds frameCount frames, saveFile gets no other, and
\* once the export has nothing left to do exactly one buffer has been posted.
C10_ExactlyOneCompleteOutput ==
  (toWriter # <<>> /\ toWriter[1].value.width # <<>>) =>
    /\ Len(bufferPosted) <= 1
    /\ \A b \in 1 .. Len(bufferPosted) :
         Len(bufferPosted[b].frames) = toWriter[1].value.frameCount
    /\ \A b \in 1 .. Len(saved) :
         Len(saved[b].frames) = toWriter[1].value.frameCount
    /\ ExportQuiescent => Len(bufferPosted) = 1

\* C11: on an assembler of beginFile, addFrame called when done() is true
\* writes no frame, and buffer() called when done() is false returns no buffer.
C11_MisuseFailsFast ==
  [][/\ (AssemblerAddFrame /\ done(writer[1])) => writer'[1].gf = writer[1].gf
     /\ (AssemblerBuffer /\ ~done(writer[1])) => bufferPosted' = <<>>]_vars

\* C12: when the reader worker's handler has ended by a throw (readFile's
\* or loadFrames') and all it posted has been received, the promise of
\* readGifFromFile, which is all its caller is given, is settled; and when
\* readFile threw no metadata has been received.
C12_FatalReportedToCaller ==
  /\ (rpc = "threw" /\ delivered = Len(posted)) => 0 \in resolved
  /\ (rpc = "threw" /\ posted = <<>>) => image = <<>>

\* C13: when the previous frame's disposal is RestoreBackground, the disposal
\* step makes every canvas pixel inside that frame's rectangle transparent and
\* leaves every pixel outside it as it was.
C13_RestoreBackgroundClearsRect ==
  [][(LoadFramesDispose /\ prevFrameInfo # <<>> /\ prevFrameInfo[1].disposal = 2) =>
        \A p \in Xs :
          canvas'[p] =
            IF p >= prevFrameInfo[1].x /\ p < prevFrameInfo[1].x + prevFrameInfo[1].width
            THEN TransparentPixel ELSE canvas[p]]_vars

\* C13, its case: the disposal of a RestoreBackground frame that covered the
\* first pixel only has cleared that pixel and kept the last one
C13_Witness ==
  /\ rpc = "paint"
  /\ prevFrameInfo # <<>>
  /\ prevFrameInfo[1].disposal = 2
  /\ prevFrameInfo[1].x = 0
  /\ prevFrameInfo[1].width = 1
  /\ frameDatas[Len(frameDatas)].data[0] # TransparentPixel
  /\ canvas[0] = TransparentPixel
  /\ canvas[Width - 1] # TransparentPixel

\* C14: after each frame k loadFrames holds, as the restore point, the last
\* frame up to k whose disposal is not RestorePrevious, or frame 0 when there
\* is none.
C14_RestorePointRule ==
  (rpc = "loop" /\ i >= 1) => prevRestorePoint = <<LastNotRestorePrevious(i)>>

\* C14, its case: disposals None, RestoreBackground, RestorePrevious; after
\* frame 2 the restore point is frame 1
C14_Witness ==
  /\ rpc = "loop"
  /\ i = 3
  /\ gif[1].disposal = 0
  /\ gif[2].disposal = 2
  /\ gif[3].disposal = 3
  /\ prevRestorePoint = <<2>>
  /\ frameDatas[prevRestorePoint[1]].index = 1

\* C14 for gif.ts: the frame its RestorePrevious disposal draws is the same one
C14_LegacyRestorePointRule ==
  (lpc = "loop" /\ i >= 1) => LegacyRestorePoint(result).index = LastNotRestorePrevious(i) - 1

\* C15: the bitmap of a frame is the canvas as it is right after the frame
\* was painted, the frame message carries that bitmap, and no later step
\* changes the bitmap of a frame already made, posted or received.
C15_EmittedFramesAreSnapshots ==
  [][/\ LoadFramesYield => frameDatas'[Len(frameDatas')].data = canvas
     /\ ReadWorkerPostFrame =>
          posted'[Len(posted')].value.data = frameDatas[Len(frameDatas)].data
     /\ \A k \in 1 .. Len(frameDatas) : frameDatas'[k].data = frameDatas[k].data
     /\ \A k \in 1 .. Len(posted) : posted'[k] = posted[k]
     /\ \A k \in 1 .. Len(frames) : frames'[k] = frames[k]]_vars

\* C15, its case: the canvas has been disposed and painted again after frame
\* 0 was received, and frame 0 still differs from it and from frame 1
C15_Witness ==
  /\ Len(frames) >= 2
  /\ rpc = "snapshot"
  /\ i = 2
  /\ frames[1].data # frames[2].data
  /\ frames[1].data # canvas
  /\ frames[2].data # canvas

\* C16: once FileEditor has been given another file, the worker of the file
\* before takes no further step and none of its messages is received.
C16_AbandonedWorkerReleased ==
  [][sourceFile = 1 =>
        /\ (readWorker = 0 /\ readWorker' = 0) => UNCHANGED decodeVars
        /\ delivered' # delivered => MessageFile(delivered + 1) = sourceFile]_vars

\* C17: the frames FileEditor holds are never more than the frameCount of the
\* metadata it holds, and the frame at position k has index k.
C17_FramesOfCurrentFileOnly ==
  /\ Len(frames) <= frameCount
  /\ \A k \in 1 .. Len(frames) : frames[k].index = k - 1

\* C18: ArrowDown or ArrowUp pressed while the selected index is outside
\* 0 .. frameCount - 1 raises no error and leaves the frame states as they are.
C18_OutOfRangeEditIsNoOp ==
  [][((KeyArrowDown \/ KeyArrowUp) /\ ~(selectedFrame >= 0 /\ selectedFrame < frameCount)) =>
        (uiError' = "none" /\ frameStates' = frameStates)]_vars

\* C19: once metadata has been received, frameStates has frameCount entries.
C19_FrameStatesLength == image # <<>> => Len(frameStates) = frameCount

\* C20: of an export, the first message sent to the encode worker is the
\* metadata and every other one a frame; the frames sent are, in order, the
\* frames download kept, which are the frames not deleted in increasing index
\* order; when all are sent there are metadata.frameCount of them; and the
\* worker has added the frames it has handled in the order they were sent.
C20_ExportMessageOrder ==
  /\ [](toWriter # <<>> =>
          /\ toWriter[1].type = "metadata"
          /\ \A k \in 2 .. Len(toWriter) :
               /\ toWriter[k].type = "frame"
               /\ toWriter[k].value = framesToSave[k - 1]
               /\ k > 2 => toWriter[k - 1].value.index < toWriter[k].value.index
          /\ wpc = "sent" => Len(toWriter) = toWriter[1].value.frameCount + 1
          /\ writer # <<>> =>
               /\ Len(writer[1].gf.frames) = handled - 1
               /\ \A k \in 1 .. Len(writer[1].gf.frames) :
                    writer[1].gf.frames[k].delay = toWriter[k + 1].value.delay)
  /\ [][ExportSubmitted =>
          /\ Len(toWriter') = 1
          /\ toWriter'[1].type = "metadata"
          /\ toWriter'[1].value.frameCount = Len(framesToSave')
          /\ Len(framesToSave') = Cardinality({k \in 1 .. frameCount : ~frameStates[k].deleted})
          /\ \A e \in 1 .. Len(framesToSave') :
               /\ ~frameStates[framesToSave'[e].index + 1].deleted
               /\ e > 1 => framesToSave'[e - 1].index < framesToSave'[e].index]_vars

\* C20, its case: of three frames the middle one is deleted; frames 0 and 2
\* were sent in that order after the metadata and the worker has added both
C20_Witness ==
  /\ Len(frames) = 3
  /\ Len(toWriter) = 3
  /\ toWriter[1].type = "metadata"
  /\ toWriter[1].value.frameCount = 2
  /\ toWriter[2].value.index = 0
  /\ toWriter[3].value.index = 2
  /\ wpc = "sent"
  /\ handled = 3
  /\ Len(writer[1].gf.frames) = 2

\* C21: ArrowDown (ArrowUp) on a selected frame that has an entry sets the
\* deleted flag of that entry to true (false) and changes nothing else of
\* frameStates: same length, every other entry as it was; the frames received
\* are as they were; and when the flag already had that value frameStates is
\* the same array and nothing is saved.
C21_MarkIsPureAndIdempotent ==
  [][\A value \in BOOLEAN :
        (KeyMark(value) /\ selectedFrame < Len(frameStates)) =>
          /\ Len(frameStates') = Len(frameStates)
          /\ \A k \in 1 .. Len(frameStates) :
               k # selectedFrame + 1 => frameStates'[k] = frameStates[k]
          /\ frameStates'[selectedFrame + 1] =
               [frameStates[selectedFrame + 1] EXCEPT !.deleted = value]
          /\ frames' = frames /\ image' = image
          /\ frameStates[selectedFrame + 1].deleted = value =>
               (frameStates' = frameStates /\ storage' = storage)]_vars

\* C21, its case: of three frames the second has been dropped with ArrowDown,
\* which moved the selection to the third
C21_Witness ==
  /\ Len(frames) = 3
  /\ Len(frameStates) = 3
  /\ ~frameStates[1].deleted /\ frameStates[2].deleted /\ ~frameStates[3].deleted
  /\ selectedFrame = 2
  /\ storage[sourceFile] = <<frameStates>>

\* C22: in loadFrames, whenever a previous frame descriptor is held a restore
\* point is held too, and no disposal step of the loop throws "No previous
\* frame to restore", whatever the disposal methods of the file.
C22_RestorePointExists ==
  /\ prevFrameInfo # <<>> => prevRestorePoint # <<>>
  /\ (rpc = "loop" /\ i < numFrames) =>
       Dispose(canvas, prevFrameInfo, prevRestorePoint, frameDatas) #
         <<"throw", "No previous frame to restore">>

\* C22, its case: frame 0 declares RestorePrevious and the loop is about to
\* dispose of it for frame 1, with frame 0 as the restore point
C22_Witness ==
  /\ rpc = "loop"
  /\ i = 1
  /\ numFrames > 1
  /\ prevFrameInfo # <<>> /\ prevFrameInfo[1].disposal = 3
  /\ prevRestorePoint = <<1>>
  /\ frameDatas[1].index = 0

\* the frames as the reader worker posted them, posted[1] being the metadata
ReceivedFrames == [k \in 1 .. Len(frames) |-> posted[k + 1].value]

\* C23: export leaves the editor's state alone.  Whatever has been exported,
\* every frame the editor holds is the frame it received, delay, bitmap and
\* palette, and none of its objects has been transferred to the writer; a
\* call of download changes neither the frames nor the marks; and what an
\* export sends is made of the frames as received and the marks as they are,
\* so that two exports in a row send the same frames with the same delays.
C23_ExportLeavesEditorState ==
  /\ [](/\ frames = ReceivedFrames
        /\ \A k \in 1 .. Len(frames) : HeldObjects(frames[k]) \notin transferred)
  /\ [][Download => (frames' = frames /\ frameStates' = frameStates)]_vars
  /\ [][ExportSubmitted =>
          framesToSave' = FramesToSave(ReceivedFrames, frameStates', frameCount)[2]]_vars
  /\ [][(WriteGifPostFrame \/ WriteWorkerOnMessage \/ WriterOnMessage) =>
          UNCHANGED <<image, frames, frameStates, selectedFrame>>]_vars

\* C23, its case: an export of three frames with the second dropped is done
\* and its file saved; the first frame went out with the two delays and its
\* clone was transferred, and the editor still holds it with its own delay
C23_Witness ==
  /\ Len(frames) = 3
  /\ frameStates[2].deleted /\ ~frameStates[1].deleted /\ ~frameStates[3].deleted
  /\ Len(saved) = 1
  /\ Len(framesToSave) = 2
  /\ framesToSave[1].delay = frames[1].delay + frames[2].delay
  /\ ClonedObjects(frames[1]) \in transferred
  /\ frames[1] = posted[2].value

\* C24: an export with frame 0 kept sends frames whose delays add up to the
\* sum of the delays of all the frames of the file, whichever of the other
\* frames are deleted; and the frames the encode worker has written carry
\* the delays that were sent.
C24_DelaySumPreserved ==
  /\ [][(ExportSubmitted /\ frameCount >= 1 /\ ~frameStates[1].deleted) =>
          SumDelays(framesToSave', 1, Len(framesToSave')) =
            SumDelays(frames, 1, frameCount)]_vars
  /\ [](\A b \in 1 .. Len(saved) :
          SumDelays(saved[b].frames, 1, Len(saved[b].frames)) =
            SumDelays(framesToSave, 1, Len(framesToSave)))

\* C24, its case: of three frames the second is deleted and the export has
\* just been submitted with two frames whose delays add up to the three
C24_Witness ==
  /\ wpc = "sending" /\ sendIdx = 0
  /\ Len(frames) = 3
  /\ ~frameStates[1].deleted /\ frameStates[2].deleted /\ ~frameStates[3].deleted
  /\ Len(framesToSave) = 2
  /\ SumDelays(framesToSave, 1, 2) = SumDelays(frames, 1, 3)
  /\ frames[2].delay = MaxDelay

\* C25: whatever clicks, key presses and playback updates have happened, the
\* selected frame index is at least 0 and below frameCount, and frameStates has
\* an entry for it.
C25_SelectedFrameInRange ==
  /\ selectedFrame >= 0
  /\ selectedFrame < frameCount
  /\ selectedFrame < Len(frameStates)

\* C26: the download button is disabled while the metadata has not arrived or
\* fewer than frameCount frames are held, so that download runs only once the
\* metadata and every frame of the file have been received.
C26_ExportOnlyWhenLoaded ==
  /\ []((image = <<>> \/ Len(frames) < frameCount) => ~DownloadEnabled)
  /\ [][Download => (image # <<>> /\ Len(frames) = frameCount)]_vars

\* the indices (0-based) of the frames kept that use the global colour table
SurvivingGlobal ==
  {k \in 0 .. (frameCount - 1) : ~frameStates[k + 1].deleted /\ frames[k + 1].isPaletteGlobal}

\* C27: the metadata of an export carries, as global palette, the palette of
\* the first frame kept that uses the global colour table, and none when no
\* such frame is kept; and the encode worker writes a frame that has a local
\* palette with that palette, which is the one the editor holds for it, and
\* a frame that uses the global one without a palette of its own, the
\* writer's global palette being the frame's palette.
C27_PaletteKnownToWriter ==
  /\ [][ExportSubmitted =>
          toWriter'[1].value.palette =
            IF SurvivingGlobal = {} THEN <<>>
            ELSE frames[1 + CHOOSE k \in SurvivingGlobal :
                              \A j \in SurvivingGlobal : k <= j].palette]_vars
  /\ [][(WriteWorkerOnMessage /\ toWriter[handled + 1].type = "frame") =>
          LET frame == toWriter[handled + 1].value
              written == writer'[1].gf.frames[Len(writer'[1].gf.frames)]
          IN /\ writer # <<>>
             /\ Len(writer'[1].gf.frames) = Len(writer[1].gf.frames) + 1
             /\ frame.palette = frames[frame.index + 1].palette
             /\ IF frame.isPaletteGlobal
                THEN written.palette = <<>> /\ writer'[1].gf.palette = frame.palette
                ELSE written.palette = frame.palette]_vars

\* C27, its case: of three frames, frame 0 has a local palette and is kept,
\* frame 1 uses the global one and is deleted, frame 2 uses the global one and
\* is kept; the file saved has the global palette of frame 2 and frame 0
\* written with its local palette
C27_Witness ==
  /\ Len(frames) = 3
  /\ ~frames[1].isPaletteGlobal /\ frames[2].isPaletteGlobal /\ frames[3].isPaletteGlobal
  /\ ~frameStates[1].deleted /\ frameStates[2].deleted /\ ~frameStates[3].deleted
  /\ Len(saved) = 1
  /\ saved[1].palette = frames[3].palette
  /\ Len(saved[1].frames) = 2
  /\ saved[1].frames[1].palette = convertPalette(OtherLocalBytes)
  /\ saved[1].frames[2].palette = <<>>

====
